---- MODULE Spec2Model ----
(***************************************************************************)
(* A model of the HarfBuzz unified iterator protocol (src/src/hb-iter.hh): *)
(* the hb_iter_t operators, the fallback mixin, the adaptors hb_map,       *)
(* hb_filter, hb_zip, hb_enumerate, hb_iota and the consuming terminals.   *)
(*                                                                         *)
(* An iterator object is a record whose field `kind` names its C++ type    *)
(* and whose other fields are that type's data members.  A method that     *)
(* mutates *this is an operator from the object to the object after the    *)
(* call.  The CRTP dispatch thiz()->__x__() is a CASE on `kind`.           *)
(***************************************************************************)
EXTENDS Integers, Sequences, FiniteSets, TLC

(* ------------------------------ bounds -------------------------------- *)

\* Longest underlying array an iterator is built over.
MaxLen == 3
\* Items of the underlying arrays are 0..MaxItem.
MaxItem == 2
\* Bit width of the unsigned type of hb_iota's T and S and of `unsigned`.
Width == 4
\* Largest count passed to operator += / operator -= / operator [].
MaxCount == 4
\* Loop iterations a terminal is followed for on an unbounded sequence.
MaxSteps == 4

RECURSIVE Pow2(_)
Pow2(n) == IF n = 0 THEN 1 ELSE 2 * Pow2(n - 1)

\* Unsigned arithmetic wraps modulo 2^Width.
Modulus == Pow2(Width)
Wrap(x) == x % Modulus

Items == 0 .. MaxItem

RECURSIVE SeqsUpTo(_)
SeqsUpTo(n) ==
  IF n = 0 THEN { <<>> }
  ELSE LET shorter == SeqsUpTo(n - 1)
       IN  shorter \cup { Append(s, x) : s \in { t \in shorter : Len(t) = n - 1 }, x \in Items }

Arrays == SeqsUpTo(MaxLen)

Min(a, b) == IF a <= b THEN a ELSE b

(* ------------------- callables handed to the adaptors ------------------ *)

\* Projections (the Proj argument, applied through hb_get).  A projection is
\* a chain of named functions, the first applied last: << g, f >> is
\* x |-> g (f (x)).
ProjNames == { "hb_identity", "inc", "dbl" }
Projs == { << n >> : n \in ProjNames }
\* Predicates (the Pred argument, applied through hb_has / hb_match).
Preds == { "hb_identity", "odd", "big", "always", "never" }

Identity == << "hb_identity" >>

\* compose (g, f): the projection x |-> g (f (x)).
compose(g, f) == g \o f

proj_apply(n, x) ==
  CASE n = "hb_identity" -> x
    [] n = "inc"         -> x + 1
    [] n = "dbl"         -> 2 * x
    [] n = "first"       -> x[1]
    [] n = "second"      -> x[2]

\* hb_get (f, x): the projection f applied to the item x.
RECURSIVE hb_get(_, _)
hb_get(f, x) ==
  IF Len(f) = 1 THEN proj_apply(f[1], x)
  ELSE proj_apply(f[1], hb_get(Tail(f), x))

\* hb_has (p, v) / hb_match (p, v): the predicate p applied to the value v.
\* hb_identity as a predicate is the value's truthiness.
hb_has(p, v) ==
  CASE p = "hb_identity" -> v # 0
    [] p = "odd"         -> v % 2 = 1
    [] p = "big"         -> v >= 2
    [] p = "always"      -> TRUE
    [] p = "never"       -> FALSE
    [] p = "zero"        -> v = 0
    [] p = "even"        -> v % 2 = 0
    [] p = "small"       -> v < 2

\* negate (p): the predicate that holds exactly where p does not.
negate(p) ==
  CASE p = "hb_identity" -> "zero"
    [] p = "odd"         -> "even"
    [] p = "big"         -> "small"
    [] p = "always"      -> "never"
    [] p = "never"       -> "always"
    [] p = "zero"        -> "hb_identity"
    [] p = "even"        -> "odd"
    [] p = "small"       -> "big"

(* ----------------------- underlying iterators -------------------------- *)

\* hb_array_t (array, length): a random-access iterator over an array.  It
\* implements __item_at__, __len__, __forward__ and __rewind__ and takes
\* the rest from the fallback mixin.
hb_array_t(array) == [kind |-> "array", items |-> array, pos |-> 0]

array_len(c) == Len(c.items) - c.pos
array_item_at(c, i) == c.items[c.pos + i + 1]
array_forward(c, n) == [c EXCEPT !.pos = c.pos + Min(n, Len(c.items) - c.pos)]
array_rewind(c, n) == [c EXCEPT !.pos = c.pos - Min(n, c.pos)]

\* A bidirectional, non-random-access iterator over the same items (a list
\* cursor).  It implements __item__, __more__, __next__ and __prev__ and
\* takes the rest from the fallback mixin.
list_iter(array) == [kind |-> "list", items |-> array, pos |-> 0]

list_more(c) == c.pos < Len(c.items)
list_item(c) == c.items[c.pos + 1]
list_next(c) == [c EXCEPT !.pos = Min(c.pos + 1, Len(c.items))]
list_prev(c) == [c EXCEPT !.pos = IF c.pos = 0 THEN 0 ELSE c.pos - 1]

\* An unbounded instrumented sequence: it always has more, and its item is
\* the number of times it has been advanced.
counter_iter == [kind |-> "counter", pos |-> 0]

counter_more(c) == TRUE
counter_item(c) == c.pos
counter_next(c) == [c EXCEPT !.pos = c.pos + 1]

\* The two kinds of underlying iterator over one array.
BaseKinds == { "array", "list" }
Base(k, array) == IF k = "array" THEN hb_array_t(array) ELSE list_iter(array)

(* ------------------------ hb_iter_t operators -------------------------- *)

RECURSIVE more(_), item(_), item_at(_, _), len(_), next(_), forward(_, _),
          prev(_), rewind(_, _), is_random_access_iterator(_),
          iter_end(_, _), neq(_, _)

\* iter_t iter () const { return *thiz(); }
iter(c) == c

\* iter_t operator + (unsigned count) const { auto c = thiz()->iter (); c += count; return c; }
plus(c, count) == forward(iter(c), count)

\* iter_t operator - (unsigned count) const
minus(c, count) == rewind(iter(c), count)

(* ------------------- hb_iter_fallback_mixin_t -------------------------- *)

\* item_t __item__ () const { return (*thiz())[0]; }
fallback_item(c) == item_at(c, 0)

\* item_t __item_at__ (unsigned i) const { return *(*thiz() + i); }
fallback_item_at(c, i) == item(plus(c, i))

\* bool __more__ () const { return thiz()->len (); }
fallback_more(c) == len(c) # 0

\* unsigned __len__ () const
\* { iter_t c (*thiz()); unsigned l = 0; while (c) { c++; l++; }; return l; }
RECURSIVE fallback_len_loop(_, _)
fallback_len_loop(c, l) ==
  IF more(c) THEN fallback_len_loop(next(c), Wrap(l + 1)) ELSE l

fallback_len(c) == fallback_len_loop(iter(c), 0)

\* void __next__ () { *thiz() += 1; }
fallback_next(c) == forward(c, 1)

\* void __forward__ (unsigned n) { while (n--) ++*thiz(); }
RECURSIVE fallback_forward(_, _)

\* A __forward__ that tests n once instead of looping: if (n) ++*thiz();
fallback_forward_once(c, n) ==
  IF n = 0 THEN c ELSE next(c)

fallback_forward(c, n) ==
  IF n = 0 THEN c ELSE fallback_forward(next(c), n - 1)

\* void __prev__ () { *thiz() -= 1; }
fallback_prev(c) == rewind(c, 1)

\* void __rewind__ (unsigned n) { while (n--) --*thiz(); }
RECURSIVE fallback_rewind(_, _)
fallback_rewind(c, n) ==
  IF n = 0 THEN c ELSE fallback_rewind(prev(c), n - 1)

\* The single forward pass of __end__: auto it = *thiz(); while (it) ++it;
RECURSIVE run_to_end(_)
run_to_end(it) == IF more(it) THEN run_to_end(next(it)) ELSE it

\* iter_t __end__ () const
\* { if (thiz()->is_random_access_iterator) return *thiz() + thiz()->len ();
\*   auto it = *thiz(); while (it) ++it; return it; }
fallback_end(c) ==
  IF is_random_access_iterator(c) THEN plus(c, len(c)) ELSE run_to_end(c)

(* --------------- hb_iter_t members as calls on an object --------------- *)

\* iter_t operator ++ (int) { iter_t c (*thiz()); ++*thiz(); return c; }
\* self is *this after the call, ret the object returned.
post_increment(c) == [self |-> next(c), ret |-> c]

\* A len () whose loop runs on *this instead of on the copy.
len_call_consuming(c) == [self |-> run_to_end(c), ret |-> len(c)]

\* unsigned len () const { return thiz()->__len__ (); } as a call on an
\* object: a const member, and the fallback __len__ counts on the copy
\* iter_t c (*thiz()), so *this is as it was.
len_call(c) == [self |-> c, ret |-> len(c)]

\* iter_t end () const { return thiz()->__end__ (); } as a call on an object:
\* a const member; the fallback __end__ advances the copy auto it = *thiz().
end_call(c, u) == [self |-> c, ret |-> iter_end(c, u)]

(* ----------------------------- hb_map ---------------------------------- *)

\* hb_map_iter_t (const Iter& it, Proj f_) : it (it), f (f_) {}
hb_map(it, f) == [kind |-> "map", it |-> it, f |-> f]

\* An __item__ that returns the input's item without applying f.
map_item_raw(c) == item(c.it)

map_item(c) == hb_get(c.f, item(c.it))
map_item_at(c, i) == hb_get(c.f, item_at(c.it, i))
map_more(c) == more(c.it)
map_len(c) == len(c.it)
map_next(c) == [c EXCEPT !.it = next(c.it)]
map_forward(c, n) == [c EXCEPT !.it = forward(c.it, n)]
map_prev(c) == [c EXCEPT !.it = prev(c.it)]
map_rewind(c, n) == [c EXCEPT !.it = rewind(c.it, n)]
\* hb_map_iter_t __end__ () const { return hb_map_iter_t (it.end (), f); }
map_end(c, u) == hb_map(iter_end(c.it, u), c.f)
\* bool operator != (const hb_map_iter_t& o) const { return it != o.it || f != o.f; }
map_neq(c, o) == neq(c.it, o.it) \/ c.f # o.f

(* ---------------------------- hb_filter -------------------------------- *)

\* The constructor's loop:
\* while (it && !hb_has (p.get (), hb_get (f.get (), *it))) ++it;
RECURSIVE filter_skip(_, _, _)
filter_skip(it, p, f) ==
  IF more(it) /\ ~hb_has(p, hb_get(f, item(it)))
  THEN filter_skip(next(it), p, f)
  ELSE it

\* hb_filter_iter_t (const Iter& it_, Pred p_, Proj f_)
hb_filter(it, p, f) ==
  [kind |-> "filter", it |-> filter_skip(it, p, f), p |-> p, f |-> f]

filter_item(c) == item(c.it)
filter_more(c) == more(c.it)
\* A __next__ that advances the input once without skipping the items that fail.
filter_next_noskip(c) == [c EXCEPT !.it = next(c.it)]

\* void __next__ () { do ++it; while (it && !hb_has (p.get (), hb_get (f.get (), *it))); }
filter_next(c) == [c EXCEPT !.it = filter_skip(next(c.it), c.p, c.f)]
\* void __prev__ () { --it; }
filter_prev(c) == [c EXCEPT !.it = prev(c.it)]
\* hb_filter_iter_t __end__ () const { return hb_filter_iter_t (it.end (), p, f); }
filter_end(c, u) == hb_filter(iter_end(c.it, u), c.p, c.f)
\* bool operator != (const hb_filter_iter_t& o) const
\* { return it != o.it || p != o.p || f != o.f; }
filter_neq(c, o) == neq(c.it, o.it) \/ c.p # o.p \/ c.f # o.f

(* ----------------------------- hb_zip ---------------------------------- *)

\* hb_zip_iter_t (const A& a, const B& b) : a (a), b (b) {}
hb_zip(a, b) == [kind |-> "zip", a |-> a, b |-> b]

zip_item(c) == << item(c.a), item(c.b) >>
zip_item_at(c, i) == << item_at(c.a, i), item_at(c.b, i) >>
zip_more(c) == more(c.a) /\ more(c.b)
\* A __len__ that reports the first input's length alone.
zip_len_first(c) == len(c.a)

zip_len(c) == Min(len(c.a), len(c.b))
zip_next(c) == [c EXCEPT !.a = next(c.a), !.b = next(c.b)]
zip_forward(c, n) == [c EXCEPT !.a = forward(c.a, n), !.b = forward(c.b, n)]
zip_prev(c) == [c EXCEPT !.a = prev(c.a), !.b = prev(c.b)]
zip_rewind(c, n) == [c EXCEPT !.a = rewind(c.a, n), !.b = rewind(c.b, n)]
\* hb_zip_iter_t __end__ () const { return hb_zip_iter_t (a.end (), b.end ()); }
zip_end(c, u) == hb_zip(iter_end(c.a, u), iter_end(c.b, u))
\* bool operator != (const hb_zip_iter_t& o) const { return a != o.a || b != o.b; }
zip_neq(c, o) == neq(c.a, o.a) \/ neq(c.b, o.b)

(* -------------------------- hb_enumerate ------------------------------- *)

\* hb_enumerate_iter_t (const Iter& it) : i (0), it (it) {}
hb_enumerate(it) == [kind |-> "enumerate", i |-> 0, it |-> it]

enumerate_item(c) == << c.i, item(c.it) >>
enumerate_item_at(c, j) == << Wrap(c.i + j), item_at(c.it, j) >>
enumerate_more(c) == more(c.it)
enumerate_len(c) == len(c.it)
enumerate_next(c) == [c EXCEPT !.i = Wrap(c.i + 1), !.it = next(c.it)]
\* A __forward__ that moves the input and leaves the index where it was.
enumerate_forward_noindex(c, n) == [c EXCEPT !.it = forward(c.it, n)]

enumerate_forward(c, n) == [c EXCEPT !.i = Wrap(c.i + n), !.it = forward(c.it, n)]
enumerate_prev(c) == [c EXCEPT !.i = Wrap(c.i - 1), !.it = prev(c.it)]
enumerate_rewind(c, n) == [c EXCEPT !.i = Wrap(c.i - n), !.it = rewind(c.it, n)]
\* hb_enumerate_iter_t __end__ () const
\* { if (is_random_access_iterator) return *this + this->len ();
\*   auto it = *this; while (it) ++it; return it; }
enumerate_end(c) ==
  IF is_random_access_iterator(c) THEN plus(c, len(c)) ELSE run_to_end(c)
\* bool operator != (const hb_enumerate_iter_t& o) const { return i != o.i || it != o.it; }
enumerate_neq(c, o) == c.i # o.i \/ neq(c.it, o.it)

(* ----------------------------- hb_iota --------------------------------- *)

\* static inline T end_for (T start, T end, S step)
end_for(start, end, step) ==
  LET res == Wrap(end - start) % step
  IN  IF res = 0 THEN end ELSE Wrap(end + (step - res))

\* hb_iota_iter_t (T start, T end, S step)
\*   : v (start), end (end_for (start, end, step)), step (step) {}
hb_iota(start, end, step) ==
  [kind |-> "iota", v |-> start, end |-> end_for(start, end, step), step |-> step]

iota_item(c) == c.v
iota_item_at(c, j) == Wrap(c.v + j * c.step)
iota_more(c) == c.v # c.end
iota_len(c) == Wrap(c.end - c.v) \div c.step
iota_next(c) == [c EXCEPT !.v = Wrap(c.v + c.step)]
iota_forward(c, n) == [c EXCEPT !.v = Wrap(c.v + n * c.step)]
iota_prev(c) == [c EXCEPT !.v = Wrap(c.v - c.step)]
iota_rewind(c, n) == [c EXCEPT !.v = Wrap(c.v - n * c.step)]
\* hb_iota_iter_t __end__ () const { hb_iota_iter_t (end, end, step); }
\* The body builds a temporary and discards it; control flows off the end of
\* a function returning a value.  The object the caller receives is
\* undefined: u stands for whichever object the build produces.
iota_end(c, u) == u
\* bool operator != (const hb_iota_iter_t& o) const
\* { return v != o.v || end != o.end || step != o.step; }
iota_neq(c, o) == c.v # o.v \/ c.end # o.end \/ c.step # o.step

(* ------------------- dispatch on the iterator's type ------------------- *)

\* static constexpr bool is_random_access_iterator
is_random_access_iterator(c) ==
  CASE c.kind = "array"     -> TRUE
    [] c.kind = "list"      -> FALSE
    [] c.kind = "map"       -> is_random_access_iterator(c.it)
    [] c.kind = "filter"    -> FALSE
    [] c.kind = "zip"       -> is_random_access_iterator(c.a) /\ is_random_access_iterator(c.b)
    [] c.kind = "enumerate" -> is_random_access_iterator(c.it)
    [] c.kind = "iota"      -> TRUE

RECURSIVE is_sorted_iterator(_)

\* A sorted flag that is the random-access flag.
is_sorted_as_random_access(c) == is_random_access_iterator(c)

\* static constexpr bool is_sorted_iterator: false unless the iterator type
\* declares its own (hb_map_iter_t declares none).
is_sorted_iterator(c) ==
  CASE c.kind = "array"     -> FALSE
    [] c.kind = "list"      -> FALSE
    [] c.kind = "counter"   -> FALSE
    [] c.kind = "map"       -> FALSE
    [] c.kind = "filter"    -> is_sorted_iterator(c.it)
    [] c.kind = "zip"       -> is_sorted_iterator(c.a) /\ is_sorted_iterator(c.b)
    [] c.kind = "enumerate" -> TRUE
    [] c.kind = "iota"      -> TRUE

\* explicit operator bool () const { return thiz()->__more__ (); }
more(c) ==
  CASE c.kind = "array"     -> fallback_more(c)
    [] c.kind = "list"      -> list_more(c)
    [] c.kind = "map"       -> map_more(c)
    [] c.kind = "filter"    -> filter_more(c)
    [] c.kind = "zip"       -> zip_more(c)
    [] c.kind = "enumerate" -> enumerate_more(c)
    [] c.kind = "iota"      -> iota_more(c)
    [] c.kind = "counter"   -> counter_more(c)

\* item_t operator * () const { return thiz()->__item__ (); }
item(c) ==
  CASE c.kind = "array"     -> fallback_item(c)
    [] c.kind = "list"      -> list_item(c)
    [] c.kind = "map"       -> map_item(c)
    [] c.kind = "filter"    -> filter_item(c)
    [] c.kind = "zip"       -> zip_item(c)
    [] c.kind = "enumerate" -> enumerate_item(c)
    [] c.kind = "iota"      -> iota_item(c)
    [] c.kind = "counter"   -> counter_item(c)

\* item_t operator [] (unsigned i) const { return thiz()->__item_at__ (i); }
item_at(c, i) ==
  CASE c.kind = "array"     -> array_item_at(c, i)
    [] c.kind = "list"      -> fallback_item_at(c, i)
    [] c.kind = "map"       -> map_item_at(c, i)
    [] c.kind = "filter"    -> fallback_item_at(c, i)
    [] c.kind = "zip"       -> zip_item_at(c, i)
    [] c.kind = "enumerate" -> enumerate_item_at(c, i)
    [] c.kind = "iota"      -> iota_item_at(c, i)

\* unsigned len () const { return thiz()->__len__ (); }
len(c) ==
  CASE c.kind = "array"     -> array_len(c)
    [] c.kind = "list"      -> fallback_len(c)
    [] c.kind = "map"       -> map_len(c)
    [] c.kind = "filter"    -> fallback_len(c)
    [] c.kind = "zip"       -> zip_len(c)
    [] c.kind = "enumerate" -> enumerate_len(c)
    [] c.kind = "iota"      -> iota_len(c)

\* iter_t& operator ++ () & { thiz()->__next__ (); return *thiz(); }
next(c) ==
  CASE c.kind = "array"     -> fallback_next(c)
    [] c.kind = "list"      -> list_next(c)
    [] c.kind = "map"       -> map_next(c)
    [] c.kind = "filter"    -> filter_next(c)
    [] c.kind = "zip"       -> zip_next(c)
    [] c.kind = "enumerate" -> enumerate_next(c)
    [] c.kind = "iota"      -> iota_next(c)
    [] c.kind = "counter"   -> counter_next(c)

\* iter_t& operator += (unsigned count) & { thiz()->__forward__ (count); return *thiz(); }
forward(c, n) ==
  CASE c.kind = "array"     -> array_forward(c, n)
    [] c.kind = "list"      -> fallback_forward(c, n)
    [] c.kind = "map"       -> map_forward(c, n)
    [] c.kind = "filter"    -> fallback_forward(c, n)
    [] c.kind = "zip"       -> zip_forward(c, n)
    [] c.kind = "enumerate" -> enumerate_forward(c, n)
    [] c.kind = "iota"      -> iota_forward(c, n)

\* iter_t& operator -- () & { thiz()->__prev__ (); return *thiz(); }
prev(c) ==
  CASE c.kind = "array"     -> fallback_prev(c)
    [] c.kind = "list"      -> list_prev(c)
    [] c.kind = "map"       -> map_prev(c)
    [] c.kind = "filter"    -> filter_prev(c)
    [] c.kind = "zip"       -> zip_prev(c)
    [] c.kind = "enumerate" -> enumerate_prev(c)
    [] c.kind = "iota"      -> iota_prev(c)

\* iter_t& operator -= (unsigned count) & { thiz()->__rewind__ (count); return *thiz(); }
rewind(c, n) ==
  CASE c.kind = "array"     -> array_rewind(c, n)
    [] c.kind = "list"      -> fallback_rewind(c, n)
    [] c.kind = "map"       -> map_rewind(c, n)
    [] c.kind = "filter"    -> fallback_rewind(c, n)
    [] c.kind = "zip"       -> zip_rewind(c, n)
    [] c.kind = "enumerate" -> enumerate_rewind(c, n)
    [] c.kind = "iota"      -> iota_rewind(c, n)

\* iter_t end () const { return thiz()->__end__ (); }
iter_end(c, u) ==
  CASE c.kind = "array"     -> fallback_end(c)
    [] c.kind = "list"      -> fallback_end(c)
    [] c.kind = "map"       -> map_end(c, u)
    [] c.kind = "filter"    -> filter_end(c, u)
    [] c.kind = "zip"       -> zip_end(c, u)
    [] c.kind = "enumerate" -> enumerate_end(c)
    [] c.kind = "iota"      -> iota_end(c, u)

\* operator != of two iterators of one type.  The underlying iterators
\* compare their array and their position.
neq(c, o) ==
  CASE c.kind = "array"     -> c.items # o.items \/ c.pos # o.pos
    [] c.kind = "list"      -> c.items # o.items \/ c.pos # o.pos
    [] c.kind = "map"       -> map_neq(c, o)
    [] c.kind = "filter"    -> filter_neq(c, o)
    [] c.kind = "zip"       -> zip_neq(c, o)
    [] c.kind = "enumerate" -> enumerate_neq(c, o)
    [] c.kind = "iota"      -> iota_neq(c, o)

(* ------------------ writing through an iterator ------------------------ *)

\* The array an iterator views and its position in it.  Iterators are views:
\* the copies of an iterator all view the one array.  Only the iterators
\* whose item is a reference to an element can be written through: the
\* underlying ones and hb_filter over them.
RECURSIVE base_of(_)
base_of(c) == IF c.kind = "filter" THEN base_of(c.it) ELSE c

\* The iterator c as it is once the array it views holds `items`.
RECURSIVE rebase(_, _)
rebase(c, items) ==
  CASE c.kind \in { "array", "list" }        -> [c EXCEPT !.items = items]
    [] c.kind \in { "map", "filter", "enumerate" } ->
         [c EXCEPT !.it = rebase(c.it, items)]
    [] c.kind = "zip"  ->
         [c EXCEPT !.a = rebase(c.a, items), !.b = rebase(c.b, items)]
    [] OTHER -> c

\* **thiz() = v: the array after the assignment through the item reference.
store(c, v) ==
  [base_of(c).items EXCEPT ![base_of(c).pos + 1] = v]

\* iter_t operator -- (int) { iter_t c (*thiz()); --*thiz(); return c; }
post_decrement(c) == [self |-> prev(c), ret |-> c]

\* iter_t& operator << (const T v) & { **thiz() = v; ++*thiz(); return *thiz(); }
\* self is *this after the call, items the array after it.
write(c, v) ==
  [self |-> next(rebase(c, store(c, v))), items |-> store(c, v)]

\* hb_fill (c, v):  for (auto i = hb_iter (c); i; i++) *i = v;  the array
\* afterwards.
RECURSIVE hb_fill(_, _)
hb_fill(i, v) ==
  IF more(i)
  THEN hb_fill(post_increment(rebase(i, store(i, v))).self, v)
  ELSE base_of(i).items

(* ============================== state ================================== *)

VARIABLES
  arg,   \* the arguments the iterator was constructed from
  c0,    \* the iterator as constructed
  c,     \* the iterator a while-style loop traverses: for (; c; ++c) out << *c
  out,   \* the items that loop has yielded so far
  w,     \* a second copy of c0, moved forwards and backwards
  adv,   \* how many times the loop has executed ++c
  acc,   \* the accumulator / return value of the running terminal
  pc     \* "loop" while the loop runs, "done" once it has returned

vars == << arg, c0, c, out, w, adv, acc, pc >>

\* The value of acc before a terminal has produced one.
NoValue == [kind |-> "none"]

\* One iteration of the loop  for (; c; ++c) out << *c;
Traverse ==
  /\ pc = "loop"
  /\ IF more(c)
     THEN /\ out' = Append(out, item(c))
          /\ c' = next(c)
          /\ adv' = adv + 1
          /\ pc' = pc
     ELSE /\ pc' = "done"
          /\ UNCHANGED << c, out, adv >>
  /\ UNCHANGED << arg, c0, w, acc >>

Start(a, it) ==
  /\ arg = a
  /\ c0 = it
  /\ c = it
  /\ out = << >>
  /\ w = it
  /\ adv = 0
  /\ acc = NoValue
  /\ pc = "loop"

(* ======================= hb_filter: traversal ========================== *)

\* The items x of s with p (f (x)), in s's order.
RECURSIVE Matching(_, _, _)
Matching(s, p, f) ==
  IF s = << >> THEN << >>
  ELSE LET rest == Matching(Tail(s), p, f)
       IN  IF hb_has(p, hb_get(f, Head(s))) THEN << Head(s) >> \o rest ELSE rest

\* Positions (0-based) of the first and the last matching item of s.
MatchPositions(s, p, f) == { i \in 0 .. Len(s) - 1 : hb_has(p, hb_get(f, s[i + 1])) }
FirstMatch(s, p, f) == CHOOSE i \in MatchPositions(s, p, f) : \A j \in MatchPositions(s, p, f) : i <= j

InitFilter ==
  \E s \in Arrays, k \in BaseKinds, p \in Preds, f \in Projs :
    Start([s |-> s, p |-> p, f |-> f], hb_filter(Base(k, s), p, f))

\* ++w on a filter iterator that has more.
FilterNext ==
  /\ more(w)
  /\ w' = next(w)
  /\ UNCHANGED << arg, c0, c, out, adv, acc, pc >>

\* --w on a filter iterator that has more and stands after the first matching item.
FilterPrev ==
  /\ more(w)
  /\ w.it.pos > FirstMatch(arg.s, arg.p, arg.f)
  /\ w' = prev(w)
  /\ UNCHANGED << arg, c0, c, out, adv, acc, pc >>

NextFilter == Traverse \/ FilterNext \/ FilterPrev

SpecFilter == InitFilter /\ [][NextFilter]_vars

\* C1: a forward traversal of filter(s, p, f) from the freshly constructed
\* iterator yields exactly the items x of s with p(f(x)), in s's order, none
\* omitted and none repeated: what has been yielded is always a prefix of
\* them, all of them once the iterator is exhausted, and when no item
\* matches the iterator is exhausted as constructed.
FilterYieldsMatching ==
  LET want == Matching(arg.s, arg.p, arg.f)
  IN  /\ Len(out) <= Len(want)
      /\ out = SubSeq(want, 1, Len(out))
      /\ ~more(c) => out = want
      /\ more(c) => Len(out) < Len(want) /\ item(c) = want[Len(out) + 1]
      /\ want = << >> => ~more(c0)

\* A traversal that ended having yielded two items and skipped another.
FilterYieldsMatchingWitness ==
  /\ pc = "done"
  /\ Len(out) = 2
  /\ Len(arg.s) = 3

\* C2: whenever a filter iterator reached by ++ and -- between the first and
\* the last matching item has more, its current item satisfies pred(proj(item)).
FilterCurrentMatches ==
  more(w) => hb_has(arg.p, hb_get(arg.f, item(w)))

(* ======================== hb_iota: traversal =========================== *)

Unsigned == 0 .. Modulus - 1

InitIota ==
  \E start \in Unsigned, end \in Unsigned, step \in Unsigned \ {0} :
    /\ start <= end
    /\ Start([start |-> start, end |-> end, step |-> step], hb_iota(start, end, step))

\* w += n on an iota iterator with at least n items left.
IotaForward ==
  \E n \in 1 .. MaxCount :
    /\ n <= len(w)
    /\ w' = forward(w, n)
    /\ UNCHANGED << arg, c0, c, out, adv, acc, pc >>

\* w -= n on an iota iterator at least n items after its start.
IotaRewind ==
  \E n \in 1 .. MaxCount :
    /\ n <= len([w EXCEPT !.v = c0.v]) - len(w)
    /\ w' = rewind(w, n)
    /\ UNCHANGED << arg, c0, c, out, adv, acc, pc >>

NextIota == Traverse \/ IotaForward \/ IotaRewind

SpecIota == InitIota /\ [][NextIota]_vars

\* ceil ((end - start) / step), in unbounded integers.
IotaCount(start, end, step) == (end - start + step - 1) \div step

\* C3: for start <= end and step >= 1, iota(start, end, step) yields by
\* forward traversal exactly start, start+step, start+2*step, ... for all
\* values strictly below end, never a value >= end, and len() at
\* construction is the number of those items, ceil((end - start) / step).
IotaYieldsProgression ==
  LET n    == IotaCount(arg.start, arg.end, arg.step)
      want == [i \in 1 .. n |-> arg.start + (i - 1) * arg.step]
  IN  /\ Len(out) <= n
      /\ out = SubSeq(want, 1, Len(out))
      /\ \A i \in 1 .. Len(out) : out[i] < arg.end
      /\ ~more(c) => out = want
      /\ len(c0) = n

(* ========================= hb_zip: traversal =========================== *)

InitZip ==
  \E a \in Arrays, b \in Arrays, ka \in BaseKinds :
    LET kb == CHOOSE k \in BaseKinds : k # ka
    IN  Start([a |-> a, b |-> b], hb_zip(Base(ka, a), Base(kb, b)))

NextZip == Traverse

SpecZip == InitZip /\ [][NextZip]_vars

\* C4: zip(a, b) has len() == min(len(a), len(b)), its i-th item is the
\* pair (a[i], b[i]) for every i below that length, and it has no more
\* exactly when at least one of the two inputs is exhausted.
ZipPairsPositionally ==
  LET n == Min(Len(arg.a), Len(arg.b))
  IN  /\ len(c0) = n
      /\ \A i \in 0 .. n - 1 : item_at(c0, i) = << arg.a[i + 1], arg.b[i + 1] >>
      /\ \A i \in 1 .. Len(out) : out[i] = << arg.a[i], arg.b[i] >>
      /\ len(c) = n - Len(out)
      /\ ~more(c) <=> (Len(out) = Len(arg.a) \/ Len(out) = Len(arg.b))

\* A traversal of two inputs of different lengths that ended at the shorter.
ZipPairsPositionallyWitness ==
  /\ pc = "done"
  /\ Len(arg.a) = 3
  /\ Len(arg.b) = 2
  /\ Len(out) = 2

(* ==================== hb_all / hb_any / hb_none ======================== *)

\* The sequences handed to the terminals: every array under either kind of
\* iterator, and the unbounded instrumented sequence.
Sources ==
  { [unbounded |-> FALSE, s |-> s, k |-> k] : s \in Arrays, k \in BaseKinds }
    \cup { [unbounded |-> TRUE, s |-> << >>, k |-> "counter"] }

\* hb_iter (c)
hb_iter(src) == IF src.unbounded THEN counter_iter ELSE iter(Base(src.k, src.s))

\* The item of a source at index i, read off the data itself.
SourceItem(src, i) == IF src.unbounded THEN i ELSE src.s[i + 1]

InitTerminal ==
  \E fn \in { "hb_all", "hb_any", "hb_none" }, src \in Sources, p \in Preds, f \in Projs :
    Start([fn |-> fn, src |-> src, p |-> p, f |-> f], hb_iter(src))

\* A loop that still executes ++it before it returns at the deciding item.
ShortCircuitStepAdvancing(negated, early, late) ==
  /\ pc = "loop"
  /\ adv < MaxSteps
  /\ IF ~more(c)
     THEN /\ acc' = late
          /\ pc' = "done"
          /\ UNCHANGED << c, out, adv >>
     ELSE LET m == hb_has(arg.p, hb_get(arg.f, item(c)))
          IN  /\ out' = Append(out, item(c))
              /\ c' = next(c)
              /\ adv' = adv + 1
              /\ IF m # negated
                 THEN acc' = early /\ pc' = "done"
                 ELSE UNCHANGED << acc, pc >>
  /\ UNCHANGED << arg, c0, w >>

\* One iteration of a short-circuiting loop
\*   for (auto it = hb_iter (c); it; ++it) if (<test of *it>) return <early>;
\*   return <late>;
\* where the test is hb_match (p, hb_get (f, *it)), negated when `negated`.
ShortCircuitStep(negated, early, late) ==
  /\ pc = "loop"
  /\ adv < MaxSteps
  /\ IF ~more(c)
     THEN /\ acc' = late
          /\ pc' = "done"
          /\ UNCHANGED << c, out, adv >>
     ELSE LET x == item(c)
              m == hb_has(arg.p, hb_get(arg.f, x))
          IN  /\ out' = Append(out, x)
              /\ IF m # negated
                 THEN /\ acc' = early
                      /\ pc' = "done"
                      /\ UNCHANGED << c, adv >>
                 ELSE /\ c' = next(c)
                      /\ adv' = adv + 1
                      /\ UNCHANGED << acc, pc >>
  /\ UNCHANGED << arg, c0, w >>

\* hb_all: if (!hb_match (p, hb_get (f, *it))) return false; ... return true;
AllStep == arg.fn = "hb_all" /\ ShortCircuitStep(TRUE, FALSE, TRUE)

\* hb_any: if (hb_match (p, hb_get (f, *it))) return true; ... return false;
AnyStep == arg.fn = "hb_any" /\ ShortCircuitStep(FALSE, TRUE, FALSE)

\* hb_none: if (hb_match (p, hb_get (f, *it))) return false; ... return true;
NoneStep == arg.fn = "hb_none" /\ ShortCircuitStep(FALSE, FALSE, TRUE)

NextTerminal == AllStep \/ AnyStep \/ NoneStep

SpecTerminal == InitTerminal /\ [][NextTerminal]_vars

\* Whether the item at index i decides the terminal: it fails p for hb_all,
\* it matches p for hb_any and hb_none.
Decides(i) ==
  LET m == hb_has(arg.p, hb_get(arg.f, SourceItem(arg.src, i)))
  IN  IF arg.fn = "hb_all" THEN ~m ELSE m

\* The value returned at the deciding item.
EarlyValue == arg.fn = "hb_any"

\* C5: all, any and none short-circuit.  While the loop runs it has
\* dereferenced the items before its position once each and none of them
\* decided; it returns the early value exactly at the first deciding item k,
\* having dereferenced the items 0..k once each and advanced k times, never
\* past item k; any(unbounded, always) returns true after one item.
TerminalsShortCircuit ==
  /\ \A i \in 1 .. Len(out) : out[i] = SourceItem(arg.src, i - 1)
  /\ pc = "loop" => /\ Len(out) = adv
                    /\ \A i \in 0 .. adv - 1 : ~Decides(i)
  /\ (pc = "done" /\ acc = EarlyValue) =>
        /\ Len(out) = adv + 1
        /\ Decides(adv)
        /\ \A i \in 0 .. adv - 1 : ~Decides(i)
  /\ (pc = "done" /\ acc # EarlyValue) =>
        /\ ~arg.src.unbounded
        /\ Len(out) = adv
        /\ adv = Len(arg.src.s)
        /\ \A i \in 0 .. adv - 1 : ~Decides(i)
  /\ (pc = "done" /\ arg.src.unbounded /\ arg.fn = "hb_any" /\ arg.p = "always") =>
        /\ acc = TRUE
        /\ Len(out) = 1
        /\ adv = 0

\* A terminal over the unbounded sequence that returned at its third item.
TerminalsShortCircuitWitness ==
  /\ pc = "done"
  /\ arg.src.unbounded
  /\ acc = EarlyValue
  /\ out = << 0, 1, 2 >>

(* ============================== end () ================================= *)

\* The iota iterators end () is called on: a few short progressions.
SmallIotas ==
  { hb_iota(start, stop, step) : start \in 0 .. 1, stop \in 1 .. 3, step \in 1 .. 2 }

\* Every object of type hb_iota_iter_t<unsigned, unsigned>.
IotaObjects ==
  { [kind |-> "iota", v |-> v, end |-> e, step |-> s] :
      v \in Unsigned, e \in Unsigned, s \in Unsigned }

\* The outcome of a call that does not return: the process aborts or runs on.
NoReturn == [kind |-> "noreturn"]

\* What a call that flows off the end of hb_iota_iter_t::__end__ may do: hand
\* back any object of the return type, or not return at all (as the
\* optimised builds do).  Other iterators have one outcome.
EndOutcomes(it) ==
  IF it.kind = "iota" THEN IotaObjects \cup { NoReturn } ELSE { NoValue }

InitEnd ==
  \/ \E s \in Arrays, k \in BaseKinds :
        Start([s |-> s], Base(k, s))
  \/ \E s \in Arrays, k \in BaseKinds, f \in Projs :
        Start([s |-> s], hb_map(Base(k, s), f))
  \/ \E s \in Arrays, k \in BaseKinds, p \in Preds, f \in Projs :
        Start([s |-> s], hb_filter(Base(k, s), p, f))
  \/ \E s \in Arrays, k \in BaseKinds :
        Start([s |-> s], hb_enumerate(Base(k, s)))
  \/ \E it \in SmallIotas :
        Start([s |-> << >>], it)

\* ++w while w has more: w stays in bounds.
EndNext ==
  /\ pc # "aborted"
  /\ more(w)
  /\ w' = next(w)
  /\ acc' = NoValue
  /\ pc' = "loop"
  /\ UNCHANGED << arg, c0, c, out, adv >>

\* acc = w.end (); a call that does not return ends the program, with
\* nothing assigned.
CallEnd ==
  /\ pc = "loop"
  /\ \E u \in EndOutcomes(w) :
       IF u = NoReturn
       THEN pc' = "aborted" /\ acc' = acc
       ELSE pc' = "done" /\ acc' = iter_end(w, u)
  /\ UNCHANGED << arg, c0, c, out, w, adv >>

NextEnd == EndNext \/ CallEnd

SpecEnd == InitEnd /\ [][NextEnd]_vars

\* C6: for a fallback-derived sequence, map, filter, enumerate and iota,
\* end () called at any in-bounds position returns an iterator that is
\* exhausted and equal to the one reached by advancing a copy of the
\* receiver step by step until it has no more; for a random-access
\* sequence that is the iterator at current position + len ().
EndIsExhaustedCopy ==
  /\ pc # "aborted"
  /\ pc = "done" =>
       /\ ~more(acc)
       /\ ~neq(acc, run_to_end(iter(w)))
       /\ is_random_access_iterator(w) => ~neq(acc, plus(w, len(w)))

(* ===================== fallback derivations ============================ *)

InitFallback ==
  \E s \in Arrays, k \in BaseKinds :
    Start([s |-> s, k |-> k], Base(k, s))

\* ++w
FallbackNext ==
  /\ more(w)
  /\ w' = next(w)
  /\ adv' = adv + 1
  /\ UNCHANGED << arg, c0, c, out, acc, pc >>

\* w += n, within the items left
FallbackForward ==
  \E n \in 0 .. MaxCount :
    /\ n <= Len(arg.s) - adv
    /\ w' = forward(w, n)
    /\ adv' = adv + n
    /\ UNCHANGED << arg, c0, c, out, acc, pc >>

\* --w
FallbackPrev ==
  /\ adv > 0
  /\ w' = prev(w)
  /\ adv' = adv - 1
  /\ UNCHANGED << arg, c0, c, out, acc, pc >>

\* w -= n, within the items passed
FallbackRewind ==
  \E n \in 0 .. MaxCount :
    /\ n <= adv
    /\ w' = rewind(w, n)
    /\ adv' = adv - n
    /\ UNCHANGED << arg, c0, c, out, acc, pc >>

NextFallback == FallbackNext \/ FallbackForward \/ FallbackPrev \/ FallbackRewind

SpecFallback == InitFallback /\ [][NextFallback]_vars

\* n applications of the primitive __next__ of the list iterator.
RECURSIVE ListNextTimes(_, _)
ListNextTimes(it, n) == IF n = 0 THEN it ELSE ListNextTimes(list_next(it), n - 1)

\* The number of primitive __next__ steps that exhaust the list iterator.
RECURSIVE ListStepsToEnd(_)
ListStepsToEnd(it) == IF list_more(it) THEN 1 + ListStepsToEnd(list_next(it)) ELSE 0

\* C7: the fallback derivations agree with the primitives.  For an iterator
\* implementing only __more__/__item__/__next__, len () is the number of
\* __next__ steps to exhaustion and += n reaches the iterator n __next__
\* calls reach; for one implementing only __item_at__/__len__/__forward__/
\* __rewind__, operator bool is len () != 0, * is [0], [i] is * of the
\* iterator advanced by i, and ++ reaches what += 1 reaches.  Every
\* iterator reached by the derived moves stands adv items after the start.
FallbackAgreesWithPrimitives ==
  LET left == Len(arg.s) - adv
  IN  /\ w = [c0 EXCEPT !.pos = adv]
      /\ arg.k = "list" =>
            /\ len(w) = ListStepsToEnd(w)
            /\ len(w) = left
            /\ \A n \in 0 .. left : forward(w, n) = ListNextTimes(w, n)
      /\ arg.k = "array" =>
            /\ more(w) <=> array_len(w) # 0
            /\ more(w) => item(w) = array_item_at(w, 0)
            /\ \A i \in 0 .. left - 1 : array_item_at(w, i) = item(plus(w, i))
            /\ more(w) => next(w) = array_forward(w, 1)

\* A list iterator moved two items in by operator +=, with an item left.
FallbackAgreesWithPrimitivesWitness ==
  /\ arg.k = "list"
  /\ adv = 2
  /\ w.pos = 2
  /\ Len(arg.s) = 3

(* ========================= copies of an iterator ======================= *)

\* The projection and predicate the copies are wrapped with.
WrapProj == << "inc" >>
WrapPred == "odd"

\* The arrays the copies view, and the values written to them: an item
\* either matches WrapPred or does not.
Bits == { 0, 1 }
BitArrays == { s \in Arrays : \A i \in 1 .. Len(s) : s[i] \in Bits }

InitCopy ==
  \/ \E s \in BitArrays, k \in BaseKinds :
        Start([s |-> s, filtered |-> FALSE], Base(k, s))
  \/ \E s \in BitArrays, k \in BaseKinds :
        Start([s |-> s, filtered |-> TRUE], hb_filter(Base(k, s), WrapPred, Identity))

\* w = c.iter () / c.begin () / +c
CopyIter ==
  /\ w' = iter(c)
  /\ UNCHANGED << arg, c0, c, out, adv, acc, pc >>

\* w = c + n
CopyPlus ==
  \E n \in 1 .. MaxCount :
    /\ n <= len(c)
    /\ w' = plus(c, n)
    /\ UNCHANGED << arg, c0, c, out, adv, acc, pc >>

\* w = c++
CopyPostIncrement ==
  /\ more(c)
  /\ LET r == post_increment(c)
     IN  /\ c' = r.self
         /\ w' = r.ret
  /\ adv' = adv + 1
  /\ UNCHANGED << arg, c0, out, acc, pc >>

\* w = c--, where c has been advanced
CopyPostDecrement ==
  /\ adv > 0
  /\ LET r == post_decrement(c)
     IN  /\ c' = r.self
         /\ w' = r.ret
  /\ adv' = adv - 1
  /\ UNCHANGED << arg, c0, out, acc, pc >>

\* w << v, on a copy whose item is a reference: the array changes under
\* every iterator that views it.
CopyWrite ==
  \E v \in Bits :
    /\ w.kind \in { "array", "list", "filter" }
    /\ more(w)
    /\ LET r == write(w, v)
       IN  /\ w' = r.self
           /\ c' = rebase(c, r.items)
           /\ c0' = rebase(c0, r.items)
           /\ arg' = [arg EXCEPT !.s = r.items]
           /\ acc' = IF acc.kind = "end"
                     THEN [acc EXCEPT !.v = rebase(acc.v, r.items)]
                     ELSE acc
    /\ UNCHANGED << out, adv, pc >>

\* w = c | hb_map (f), c | hb_filter (p, f), hb_enumerate (c), hb_zip (c, c)
CopyWrap ==
  /\ w' \in { hb_map(c, WrapProj), hb_filter(c, WrapPred, WrapProj),
               hb_enumerate(c), hb_zip(c, c) }
  /\ UNCHANGED << arg, c0, c, out, adv, acc, pc >>

\* c passed by value to a terminal, whose loop for (; it; ++it) exhausts it.
CopyDrain ==
  /\ w' = run_to_end(iter(c))
  /\ UNCHANGED << arg, c0, c, out, adv, acc, pc >>

\* ++w
CopyNext ==
  /\ more(w)
  /\ w' = next(w)
  /\ UNCHANGED << arg, c0, c, out, adv, acc, pc >>

\* --w, where there is an item before w
CopyPrev ==
  /\ len(prev(w)) > len(w)
  /\ w' = prev(w)
  /\ UNCHANGED << arg, c0, c, out, adv, acc, pc >>

\* acc = c.len ()
CopyLen ==
  /\ LET r == len_call(c)
     IN  c' = r.self /\ acc' = [kind |-> "len", n |-> r.ret]
  /\ UNCHANGED << arg, c0, out, w, adv, pc >>

\* acc = c.end ()
CopyEnd ==
  /\ LET r == end_call(c, NoValue)
     IN  c' = r.self /\ acc' = [kind |-> "end", v |-> r.ret]
  /\ UNCHANGED << arg, c0, out, w, adv, pc >>

NextCopy ==
  \/ CopyIter \/ CopyPlus \/ CopyPostIncrement \/ CopyPostDecrement
  \/ CopyWrite \/ CopyWrap \/ CopyDrain
  \/ CopyNext \/ CopyPrev \/ CopyLen \/ CopyEnd

SpecCopy == InitCopy /\ [][NextCopy]_vars

\* The items an iterator yields from where it stands.
RECURSIVE Yields(_)
Yields(it) == IF more(it) THEN << item(it) >> \o Yields(next(it)) ELSE << >>

\* A copy of c is made or moved, or len () or end () is called on c.
CopyOrQuery ==
  \/ CopyIter \/ CopyPlus \/ CopyWrap \/ CopyDrain
  \/ CopyNext \/ CopyPrev \/ CopyLen \/ CopyEnd

\* C8: copies are independent cursors.  Making a copy of c (by iter (),
\* c + n, wrapping in an adaptor, passing to a terminal), advancing or
\* retreating the copy, and calling len () or end () on c leave c where it
\* stands and yielding the items it yielded; c++ and c-- hand back c as it
\* was and move c alone; and an unfiltered c stands where its own
\* increments and decrements put it and yields the array's items from there.
CopiesAreIndependent ==
  /\ [](~arg.filtered =>
          /\ c = plus(c0, adv)
          /\ Yields(c) = SubSeq(arg.s, adv + 1, Len(arg.s)))
  /\ [][/\ (c' = c /\ Yields(c') = Yields(c)) \/ ~CopyOrQuery
        /\ (w' = c /\ c' = next(c)) \/ ~CopyPostIncrement
        /\ (w' = c /\ c' = prev(c)) \/ ~CopyPostDecrement]_vars

\* c was advanced once, then copied into a wrapper that was run to its end.
CopiesAreIndependentWitness ==
  /\ adv = 1
  /\ more(c)
  /\ w.kind = "enumerate"
  /\ ~more(w)
  /\ acc.kind = "len"

(* ============================ hb_reduce ================================ *)

\* Reducers (the Redu argument) and initial values.
Redus == { "add", "sub", "horner" }
InitValues == { 0, 1 }

\* r (value, x): the reducer called on the accumulator and an item.
redu(r, value, x) ==
  CASE r = "add"    -> value + x
    [] r = "sub"    -> value - x
    [] r = "horner" -> 2 * value + x

\* hb_reduce (r, init_value) applied to an iterator: AccuT value = init_value;
InitReduce ==
  \E s \in Arrays, k \in BaseKinds, r \in Redus, v \in InitValues :
    /\ arg = [s |-> s, r |-> r, init_value |-> v]
    /\ c0 = Base(k, s)
    /\ c = c0
    /\ w = c0
    /\ out = << >>
    /\ adv = 0
    /\ acc = v
    /\ pc = "loop"

\* A loop body that hands the reducer its arguments the other way round.
ReduceStepSwapped ==
  /\ pc = "loop"
  /\ IF more(c)
     THEN /\ acc' = redu(arg.r, item(c), acc)
          /\ out' = Append(out, item(c))
          /\ c' = next(c)
          /\ adv' = adv + 1
          /\ pc' = pc
     ELSE /\ pc' = "done"
          /\ UNCHANGED << c, out, adv, acc >>
  /\ UNCHANGED << arg, c0, w >>

\* One iteration of  for (; it; ++it) value = r (value, *it);  return value;
\* out records the items the reducer was called on, adv the number of calls.
ReduceStep ==
  /\ pc = "loop"
  /\ IF more(c)
     THEN /\ acc' = redu(arg.r, acc, item(c))
          /\ out' = Append(out, item(c))
          /\ c' = next(c)
          /\ adv' = adv + 1
          /\ pc' = pc
     ELSE /\ pc' = "done"
          /\ UNCHANGED << c, out, adv, acc >>
  /\ UNCHANGED << arg, c0, w >>

NextReduce == ReduceStep

SpecReduce == InitReduce /\ [][NextReduce]_vars

\* op (... op (op (init, x0), x1) ..., x(n-1)), built from the last item inwards.
RECURSIVE FoldLeft(_, _, _)
FoldLeft(r, init, s) ==
  IF s = << >> THEN init
  ELSE redu(r, FoldLeft(r, init, SubSeq(s, 1, Len(s) - 1)), s[Len(s)])

\* C9: reduce is a left fold in one forward pass: after adv iterations the
\* accumulator is the left fold of the first adv items, the reducer having
\* been called once on each of them in order; the value returned is the
\* left fold of all the items, and init unchanged, with no call of the
\* reducer, when the sequence is empty.
ReduceIsLeftFold ==
  /\ out = SubSeq(arg.s, 1, adv)
  /\ acc = FoldLeft(arg.r, arg.init_value, SubSeq(arg.s, 1, adv))
  /\ pc = "done" => /\ adv = Len(arg.s)
                    /\ acc = FoldLeft(arg.r, arg.init_value, arg.s)
  /\ (pc = "done" /\ arg.s = << >>) => (acc = arg.init_value /\ adv = 0)

\* A fold of three items with an order-sensitive reducer has returned.
ReduceIsLeftFoldWitness ==
  /\ pc = "done"
  /\ arg.r = "horner"
  /\ arg.s = << 1, 0, 2 >>
  /\ arg.init_value = 1
  /\ acc = 14

(* ============================== hb_map ================================= *)

\* c traverses map (map (s, f), g) and w traverses map (s, compose (g, f)).
InitMap ==
  \E s \in Arrays, k \in BaseKinds, f \in Projs, g \in Projs :
    /\ arg = [s |-> s, k |-> k, f |-> f, g |-> g]
    /\ c0 = hb_map(hb_map(Base(k, s), f), g)
    /\ c = c0
    /\ w = hb_map(Base(k, s), compose(g, f))
    /\ out = << >>
    /\ adv = 0
    /\ acc = NoValue
    /\ pc = "loop"

\* One iteration of the two loops run side by side:
\* for (; c; ++c, ++w) out << *c;
MapStep ==
  /\ pc = "loop"
  /\ IF more(c)
     THEN /\ out' = Append(out, item(c))
          /\ c' = next(c)
          /\ w' = next(w)
          /\ adv' = adv + 1
          /\ pc' = pc
     ELSE /\ pc' = "done"
          /\ UNCHANGED << c, w, out, adv >>
  /\ UNCHANGED << arg, c0, acc >>

NextMap == MapStep

SpecMap == InitMap /\ [][NextMap]_vars

\* C10: the functor law and position preservation of map.  At every step
\* map (map (s, f), g) and map (s, g after f) agree on whether there is
\* more and on the current item, and the items yielded are g (f (x)) for
\* the items x of s in order; len (map (s, f)) == len (s) and the item of
\* map (s, f) at position i is f (item of s at position i).
MapFunctorLaw ==
  LET inner == hb_map(Base(arg.k, arg.s), arg.f)
  IN  /\ more(c) <=> more(w)
      /\ more(c) => item(c) = item(w)
      /\ len(c) = len(w)
      /\ Len(out) = adv
      /\ \A i \in 1 .. Len(out) : out[i] = proj_apply(arg.g[1], proj_apply(arg.f[1], arg.s[i]))
      /\ pc = "done" => Len(out) = Len(arg.s)
      /\ len(inner) = Len(arg.s)
      /\ len(c0) = Len(arg.s)
      /\ \A i \in 0 .. Len(arg.s) - 1 :
            /\ item_at(inner, i) = proj_apply(arg.f[1], arg.s[i + 1])
            /\ item(plus(inner, i)) = proj_apply(arg.f[1], arg.s[i + 1])

\* Both traversals ended after three items mapped by two projections that
\* do not commute.
MapFunctorLawWitness ==
  /\ pc = "done"
  /\ arg.f = << "inc" >>
  /\ arg.g = << "dbl" >>
  /\ out = << 2, 4, 6 >>

(* =========================== hb_enumerate ============================== *)

\* hb_enumerate (s); acc counts the positions w has been advanced by.
InitEnumerate ==
  \E s \in Arrays, k \in BaseKinds :
    /\ arg = [s |-> s, k |-> k]
    /\ c0 = hb_enumerate(Base(k, s))
    /\ c = c0
    /\ w = c0
    /\ out = << >>
    /\ adv = 0
    /\ acc = 0
    /\ pc = "loop"

\* ++w
EnumerateNext ==
  /\ more(w)
  /\ w' = next(w)
  /\ acc' = acc + 1
  /\ UNCHANGED << arg, c0, c, out, adv, pc >>

\* w += n, within the items left
EnumerateForward ==
  \E n \in 1 .. MaxCount :
    /\ n <= Len(arg.s) - acc
    /\ w' = forward(w, n)
    /\ acc' = acc + n
    /\ UNCHANGED << arg, c0, c, out, adv, pc >>

NextEnumerate == Traverse \/ EnumerateNext \/ EnumerateForward

SpecEnumerate == InitEnumerate /\ [][NextEnumerate]_vars

\* C11: len (enumerate (s)) == len (s) and forward traversal yields the
\* pairs (0, s0), (1, s1), ..., (n-1, s(n-1)); the index is zero at
\* construction, grows by one per ++ and by n per += n, and [j] at an
\* iterator whose index is i is the pair (i + j, item of s j positions ahead).
EnumeratePairsWithIndex ==
  /\ len(c0) = Len(arg.s)
  /\ c0.i = 0
  /\ Len(out) = adv
  /\ \A i \in 1 .. Len(out) : out[i] = << i - 1, arg.s[i] >>
  /\ pc = "done" => Len(out) = Len(arg.s)
  /\ w.i = acc
  /\ len(w) = Len(arg.s) - acc
  /\ more(w) => item(w) = << acc, arg.s[acc + 1] >>
  /\ \A j \in 0 .. Len(arg.s) - acc - 1 :
       item_at(w, j) = << acc + j, arg.s[acc + j + 1] >>

\* The traversal ended after three pairs, and w was moved two items in by
\* one += 2 with an item left to read.
EnumeratePairsWithIndexWitness ==
  /\ pc = "done"
  /\ Len(out) = 3
  /\ w = forward(c0, 2)
  /\ acc = 2
  /\ more(w)

(* ========================= hb_sink / hb_copy =========================== *)

\* s << v on an append-only buffer
sink_push(s, v) == Append(s, v)

\* A sink that takes the first item only.
hb_sink_first(it, s) == IF more(it) THEN sink_push(s, item(it)) ELSE s

\* hb_sink (s) (it):  for (; it; ++it) s << *it;  the buffer afterwards.
\* The sink holds a reference to the buffer (hb_sink of an lvalue or pointer).
RECURSIVE hb_sink(_, _)
hb_sink(it, s) == IF more(it) THEN hb_sink(next(it), sink_push(s, item(it))) ELSE s

\* hb_copy (is, id):  hb_iter (is) | hb_sink (id);  the destination afterwards.
hb_copy(is, id) == hb_sink(hb_iter(is), id)

\* What the destination buffers hold before anything is appended.
Prefixes == { << >>, << MaxItem >> }

\* c is an iterator over the array s, out the buffer it will be sunk to, acc
\* the destination the sequence itself will be copied to; arg.sunk and
\* arg.copied are what the array held when it was sunk and copied.
InitSink ==
  \E s \in Arrays, k \in BaseKinds, pre \in Prefixes :
    /\ arg = [unbounded |-> FALSE, s |-> s, k |-> k, pre |-> pre,
              sunk |-> s, copied |-> s]
    /\ c0 = hb_iter(arg)
    /\ c = c0
    /\ w = NoValue
    /\ out = pre
    /\ adv = 0
    /\ acc = pre
    /\ pc = "loop"

\* ++c before c is handed to the sink
SinkAdvance ==
  /\ pc = "loop"
  /\ more(c)
  /\ c' = next(c)
  /\ adv' = adv + 1
  /\ UNCHANGED << arg, c0, out, w, acc, pc >>

\* c | hb_sink (out); w is the iterator as the sink's loop left its copy
SinkCall ==
  /\ pc = "loop"
  /\ out' = hb_sink(c, out)
  /\ w' = run_to_end(c)
  /\ arg' = [arg EXCEPT !.sunk = arg.s]
  /\ pc' = "sunk"
  /\ UNCHANGED << c0, c, adv, acc >>

\* hb_copy (s, acc)
CopyCall ==
  /\ pc = "sunk"
  /\ acc' = hb_copy(arg, acc)
  /\ arg' = [arg EXCEPT !.copied = arg.s]
  /\ pc' = "done"
  /\ UNCHANGED << c0, c, out, w, adv >>

\* hb_fill (c, v): the array changes under every iterator that views it;
\* the buffers are arrays of their own.
FillCall ==
  \E v \in { 0, MaxItem } :
    LET items == hb_fill(iter(c), v)
    IN  /\ arg' = [arg EXCEPT !.s = items]
        /\ c0' = rebase(c0, items)
        /\ c' = rebase(c, items)
        /\ w' = rebase(w, items)
        /\ UNCHANGED << out, adv, acc, pc >>

NextSink == SinkAdvance \/ SinkCall \/ CopyCall \/ FillCall

SpecSink == InitSink /\ [][NextSink]_vars

\* C12: hb_sink appends every item of the iterator, from its position to
\* exhaustion, to the buffer once and in traversal order, after what the
\* buffer held; iterating the buffer afterwards yields what iterating the
\* iterator yields; hb_copy (s, dst) leaves in dst what hb_sink leaves when
\* applied to hb_iter (s).
SinkAppendsInOrder ==
  /\ pc = "loop" => out = arg.pre /\ acc = arg.pre
  /\ pc \in { "sunk", "done" } =>
       /\ out = arg.pre \o SubSeq(arg.sunk, adv + 1, Len(arg.sunk))
       /\ arg.s = arg.sunk => Yields(hb_array_t(out)) = arg.pre \o Yields(c)
       /\ ~more(w)
  /\ pc = "done" =>
       /\ acc = arg.pre \o arg.copied
       /\ arg.s = arg.copied =>
            /\ acc = hb_sink(hb_iter(arg), arg.pre)
            /\ Yields(hb_array_t(acc)) = arg.pre \o Yields(c0)

\* A three-item sequence was sunk from its second item on into a buffer
\* that held an item already, and then copied whole.
SinkAppendsInOrderWitness ==
  /\ pc = "done"
  /\ Len(arg.s) = 3
  /\ adv = 1
  /\ arg.pre # << >>
  /\ Len(out) = 3
  /\ Len(acc) = 4

(* ============== hb_all / hb_any / hb_none: return values =============== *)

\* The loop of hb_all, hb_any and hb_none run to its return:
\*   for (; it; ++it) if (<test of *it>) return <early>;  return <late>;
\* where the test is hb_match (p, hb_get (f, *it)), negated when `negated`.
RECURSIVE short_circuit(_, _, _, _, _, _)
short_circuit(it, p, f, negated, early, late) ==
  IF ~more(it) THEN late
  ELSE IF hb_has(p, hb_get(f, item(it))) # negated THEN early
  ELSE short_circuit(next(it), p, f, negated, early, late)

hb_all(s, p, f) == short_circuit(hb_iter(s), p, f, TRUE, FALSE, TRUE)

\* An hb_any that looks at the first item only.
hb_any_first(s, p, f) ==
  more(hb_iter(s)) /\ hb_has(p, hb_get(f, item(hb_iter(s))))

hb_any(s, p, f) == short_circuit(hb_iter(s), p, f, FALSE, TRUE, FALSE)

hb_none(s, p, f) == short_circuit(hb_iter(s), p, f, FALSE, FALSE, TRUE)

\* The calls made on one sequence: each terminal with p and with negate (p).
QuantCalls == { "hb_all", "hb_any", "hb_none" } \X BOOLEAN

\* acc maps the calls made so far to what they returned.
InitQuant ==
  \E src \in { x \in Sources : ~x.unbounded }, p \in Preds, f \in Projs :
    /\ arg = [src |-> src, p |-> p, f |-> f]
    /\ c0 = hb_iter(src)
    /\ c = c0
    /\ w = c0
    /\ out = << >>
    /\ adv = 0
    /\ acc = << >>
    /\ pc = "loop"

\* acc with the result r recorded for the call k.
Returned(k, r) == [x \in DOMAIN acc \cup { k } |-> IF x = k THEN r ELSE acc[x]]

\* The predicate a call hands over: p, or negate (p).
QuantPred(neg) == IF neg THEN negate(arg.p) ELSE arg.p

QuantCall(fn, r) ==
  /\ fn \notin DOMAIN acc
  /\ acc' = Returned(fn, r)
  /\ UNCHANGED << arg, c0, c, out, w, adv, pc >>

\* hb_all (s, p, f) and hb_all (s, negate (p), f)
CallAll ==
  \E neg \in BOOLEAN :
    QuantCall(<< "hb_all", neg >>, hb_all(arg.src, QuantPred(neg), arg.f))

\* hb_any (s, p, f) and hb_any (s, negate (p), f)
CallAny ==
  \E neg \in BOOLEAN :
    QuantCall(<< "hb_any", neg >>, hb_any(arg.src, QuantPred(neg), arg.f))

\* hb_none (s, p, f) and hb_none (s, negate (p), f)
CallNone ==
  \E neg \in BOOLEAN :
    QuantCall(<< "hb_none", neg >>, hb_none(arg.src, QuantPred(neg), arg.f))

NextQuant == CallAll \/ CallAny \/ CallNone

SpecQuant == InitQuant /\ [][NextQuant]_vars

\* Both calls k and l have returned.
Made(k, l) == k \in DOMAIN acc /\ l \in DOMAIN acc

\* C13: on the same finite sequence, none (s, p) = !any (s, p) and
\* all (s, p) = none (s, negate (p)), where negate (p) holds exactly where p
\* does not; on the empty sequence all and none return true and any false.
QuantifiersAreDual ==
  /\ \A v \in 0 .. 2 * MaxItem + 1 :
       hb_has(negate(arg.p), v) = ~hb_has(arg.p, v)
  /\ \A neg \in BOOLEAN :
       /\ Made(<< "hb_none", neg >>, << "hb_any", neg >>) =>
            acc[<< "hb_none", neg >>] = ~acc[<< "hb_any", neg >>]
       /\ Made(<< "hb_all", neg >>, << "hb_none", ~neg >>) =>
            acc[<< "hb_all", neg >>] = acc[<< "hb_none", ~neg >>]
  /\ \A k \in DOMAIN acc :
       /\ acc[k] \in BOOLEAN
       /\ arg.src.s = << >> => acc[k] = (k[1] # "hb_any")
       /\ k[1] = "hb_any" =>
            acc[k] = \E i \in 1 .. Len(arg.src.s) :
                       hb_has(QuantPred(k[2]), hb_get(arg.f, arg.src.s[i]))

\* All six calls returned on a three-item sequence of which the last item
\* alone matches p.
QuantifiersAreDualWitness ==
  /\ DOMAIN acc = QuantCalls
  /\ Len(arg.src.s) = 3
  /\ acc[<< "hb_any", FALSE >>]
  /\ ~acc[<< "hb_all", FALSE >>]
  /\ ~hb_has(arg.p, hb_get(arg.f, arg.src.s[1]))
  /\ ~hb_has(arg.p, hb_get(arg.f, arg.src.s[2]))

(* ======================== is_sorted_iterator =========================== *)

\* Iterators as constructed, each with the Sorted flag its type declares:
\* the ones that declare nothing, and hb_iota.
FlaggedBases ==
  { [it |-> Base(k, s), sorted |-> FALSE] :
      k \in BaseKinds, s \in { x \in Arrays : Len(x) <= 1 } }
    \cup { [it |-> i, sorted |-> TRUE] : i \in SmallIotas }

\* The second inputs of hb_zip, of either flag, each built in two ways.
FlaggedPartners ==
  { [it |-> list_iter(<< 0 >>), sorted |-> FALSE],
    [it |-> hb_map(hb_iota(0, 1, 1), Identity), sorted |-> FALSE],
    [it |-> hb_iota(0, 1, 1), sorted |-> TRUE],
    [it |-> hb_enumerate(list_iter(<< 0 >>)), sorted |-> TRUE] }

\* c is the iterator the adaptors are applied to, c0 the input of the last
\* adaptor applied, w the other input of hb_zip; acc is the Sorted flag of c
\* and arg.wsorted that of w, as computed from the flags of the inputs.
InitSorted ==
  \E b \in FlaggedBases, o \in FlaggedPartners :
    /\ arg = [wsorted |-> o.sorted]
    /\ c0 = b.it
    /\ c = b.it
    /\ w = o.it
    /\ out = << >>
    /\ adv = 0
    /\ acc = b.sorted
    /\ pc = IF b.it.kind = "iota" THEN "iota" ELSE "base"

\* c' = adaptor (c), whose flag is `sorted`
Adapted(name, it, sorted) ==
  /\ adv < MaxSteps
  /\ c0' = c
  /\ c' = it
  /\ acc' = sorted
  /\ pc' = name
  /\ adv' = adv + 1
  /\ UNCHANGED << arg, out, w >>

\* c | hb_map (f)
SortedMap == Adapted("map", hb_map(c, Identity), FALSE)

\* c | hb_filter (p, f)
SortedFilter == Adapted("filter", hb_filter(c, "always", Identity), acc)

\* hb_enumerate (c)
SortedEnumerate == Adapted("enumerate", hb_enumerate(c), TRUE)

\* hb_zip (c, w) and hb_zip (w, c)
SortedZip ==
  \/ Adapted("zip", hb_zip(c, w), acc /\ arg.wsorted)
  \/ Adapted("zip", hb_zip(w, c), arg.wsorted /\ acc)

NextSorted == SortedMap \/ SortedFilter \/ SortedEnumerate \/ SortedZip

SpecSorted == InitSorted /\ [][NextSorted]_vars

\* C14: the Sorted flag of an adaptor's result is this function of its
\* inputs' flags: enumerate is sorted whatever its input, filter has its
\* input's flag, zip is sorted iff both inputs are, map is never sorted,
\* iota is sorted, and an iterator that declares nothing is not.
SortedFlagPropagates ==
  /\ is_sorted_iterator(c) = acc
  /\ is_sorted_iterator(w) = arg.wsorted
  /\ pc = "base" => ~is_sorted_iterator(c)
  /\ pc = "iota" => is_sorted_iterator(c)
  /\ pc = "map" => ~is_sorted_iterator(c)
  /\ pc = "filter" => is_sorted_iterator(c) = is_sorted_iterator(c0)
  /\ pc = "enumerate" => is_sorted_iterator(c)
  /\ pc = "zip" =>
       is_sorted_iterator(c) = (is_sorted_iterator(c0) /\ is_sorted_iterator(w))

\* A sorted zip of a filtered enumeration of an unsorted iterator with a
\* sorted partner, whose map is then unsorted.
SortedFlagPropagatesWitness ==
  /\ pc = "map"
  /\ ~acc
  /\ c0.kind = "zip"
  /\ is_sorted_iterator(c0)
  /\ c0.a.kind = "filter"
  /\ c0.a.it.kind = "enumerate"
  /\ ~is_sorted_iterator(c0.a.it.it)

(* ============================= hb_unzip ================================ *)

\* An unzip that sends the second components to s1 and the first to s2.
RECURSIVE hb_unzip_swapped(_, _, _)
hb_unzip_swapped(it, s1, s2) ==
  IF more(it)
  THEN hb_unzip_swapped(next(it), sink_push(s1, proj_apply("second", item(it))),
                        sink_push(s2, proj_apply("first", item(it))))
  ELSE [s1 |-> s1, s2 |-> s2]

\* hb_unzip (s1, s2) (it):
\*   for (; it; ++it) { const auto &v = *it; s1 << v.first; s2 << v.second; }
\* the two buffers afterwards.
RECURSIVE hb_unzip(_, _, _)
hb_unzip(it, s1, s2) ==
  IF more(it)
  THEN LET v == item(it)
       IN  hb_unzip(next(it), sink_push(s1, proj_apply("first", v)),
                    sink_push(s2, proj_apply("second", v)))
  ELSE [s1 |-> s1, s2 |-> s2]

\* Arrays of at most two items, and of at most two pairs.
ShortArrays == { s \in Arrays : Len(s) <= 2 }
PairArrays ==
  { << >> } \cup { << p >> : p \in Items \X Items }
            \cup { << p, q >> : p \in Items \X Items, q \in Items \X Items }

\* The first and second components of a sequence of pairs.
Firsts(ps) == [i \in 1 .. Len(ps) |-> ps[i][1]]
Seconds(ps) == [i \in 1 .. Len(ps) |-> ps[i][2]]

\* The iterators of pairs handed to hb_unzip, each with the components it is
\* to yield, read off the data it was built over.
PairSources ==
  { [it |-> list_iter(ps), first |-> Firsts(ps), second |-> Seconds(ps), zipped |-> FALSE] :
      ps \in PairArrays }
    \cup
  { [it |-> hb_enumerate(Base(k, s)), first |-> [i \in 1 .. Len(s) |-> i - 1],
     second |-> s, zipped |-> FALSE] : s \in Arrays, k \in BaseKinds }
    \cup
  { [it |-> hb_zip(Base(k, x.a), Base(CHOOSE o \in BaseKinds : o # k, x.b)),
     first |-> SubSeq(x.a, 1, Min(Len(x.a), Len(x.b))),
     second |-> SubSeq(x.b, 1, Min(Len(x.a), Len(x.b))), zipped |-> TRUE] :
      x \in [a : Arrays, b : ShortArrays], k \in BaseKinds }

\* out is the buffer behind s1 and acc the one behind s2.
InitUnzip ==
  \E src \in PairSources, pre \in Prefixes :
    /\ arg = [first |-> src.first, second |-> src.second, zipped |-> src.zipped,
              pre |-> pre]
    /\ c0 = src.it
    /\ c = src.it
    /\ w = NoValue
    /\ out = pre
    /\ adv = 0
    /\ acc = << >>
    /\ pc = "loop"

\* ++c before c is handed to hb_unzip
UnzipAdvance ==
  /\ pc = "loop"
  /\ more(c)
  /\ c' = next(c)
  /\ adv' = adv + 1
  /\ UNCHANGED << arg, c0, out, w, acc, pc >>

\* c | hb_unzip (out, acc)
UnzipCall ==
  /\ pc = "loop"
  /\ LET r == hb_unzip(c, out, acc)
     IN  out' = r.s1 /\ acc' = r.s2
  /\ w' = run_to_end(c)
  /\ pc' = "done"
  /\ UNCHANGED << arg, c0, c, adv >>

NextUnzip == UnzipAdvance \/ UnzipCall

SpecUnzip == InitUnzip /\ [][NextUnzip]_vars

\* C15: hb_unzip appends to s1 the first and to s2 the second components of
\* all pairs the iterator yields, once each and in traversal order, after
\* what the buffers held; applied to hb_zip (a, b) it writes the first
\* min (len (a), len (b)) items of a to s1 and of b to s2.
UnzipSplitsPairs ==
  /\ pc = "loop" => out = arg.pre /\ acc = << >>
  /\ pc = "done" =>
       /\ out = arg.pre \o SubSeq(arg.first, adv + 1, Len(arg.first))
       /\ acc = SubSeq(arg.second, adv + 1, Len(arg.second))
       /\ Len(acc) = Len(Yields(c))
       /\ \A i \in 1 .. Len(acc) :
            << out[Len(arg.pre) + i], acc[i] >> = Yields(c)[i]
       /\ ~more(w)
  /\ (pc = "done" /\ arg.zipped) =>
       /\ Len(acc) = Min(Len(c0.a.items), Len(c0.b.items)) - adv
       /\ \A i \in 1 .. Len(acc) :
            /\ out[Len(arg.pre) + i] = c0.a.items[adv + i]
            /\ acc[i] = c0.b.items[adv + i]

\* A zip of three items with two was unzipped from its start into two
\* buffers that now hold two items each, which differ.
UnzipSplitsPairsWitness ==
  /\ pc = "done"
  /\ arg.zipped
  /\ Len(c0.a.items) = 3
  /\ Len(c0.b.items) = 2
  /\ adv = 0
  /\ arg.pre = << >>
  /\ Len(out) = 2
  /\ Len(acc) = 2
  /\ out # acc

(* ============================ operator | =============================== *)

\* How many adaptors a pipeline has at most.
MaxStages == 2

\* hb_map (f), hb_filter (p, f), hb_reduce (r, init_value), hb_sink (s): the
\* function objects the factories return.
hb_map_iter_factory_t(f) == [fn |-> "hb_map", f |-> f]
hb_filter_iter_factory_t(p, f) == [fn |-> "hb_filter", p |-> p, f |-> f]
hb_reduce_t(r, init_value) == [fn |-> "hb_reduce", r |-> r, init_value |-> init_value]
hb_sink_t(s) == [fn |-> "hb_sink", s |-> s]

\* hb_reduce_t::operator ():
\*   AccuT value = init_value; for (; it; ++it) value = r (value, *it); return value;
RECURSIVE hb_reduce(_, _, _)
hb_reduce(it, r, value) ==
  IF more(it) THEN hb_reduce(next(it), r, redu(r, value, item(it))) ELSE value

\* rhs (it): operator () of a function object; for hb_sink_t, which returns
\* nothing, the buffer afterwards.
call(rhs, it) ==
  CASE rhs.fn = "hb_map"    -> hb_map(it, rhs.f)
    [] rhs.fn = "hb_filter" -> hb_filter(it, rhs.p, rhs.f)
    [] rhs.fn = "hb_reduce" -> hb_reduce(it, rhs.r, rhs.init_value)
    [] rhs.fn = "hb_sink"   -> hb_sink(it, rhs.s)

\* An operator | that drops the adaptors and applies the terminals.
pipe_dropping(lhs, rhs) ==
  IF rhs.fn \in { "hb_reduce", "hb_sink" } THEN call(rhs, lhs) ELSE lhs

\* lhs | rhs
pipe(lhs, rhs) == call(rhs, lhs)

\* The values x of s in order, each replaced by f (x).
Mapped(s, f) == [i \in 1 .. Len(s) |-> hb_get(f, s[i])]

\* The arguments of the adaptors of a pipeline.
PipeProjs == { << "inc" >>, << "dbl" >> }
PipeFilters ==
  { [p |-> "odd", f |-> Identity], [p |-> "big", f |-> Identity],
    [p |-> "odd", f |-> << "dbl", "inc" >>] }

\* c is s | A1 | ... | Ak and w is Ak (... A1 (s) ...); out is the values c
\* is to yield, computed from the data.
InitPipe ==
  \E b \in { hb_array_t(s) : s \in Arrays } \cup { list_iter(s) : s \in ShortArrays } :
    /\ arg = [s |-> b.items, r |-> NoValue]
    /\ c0 = b
    /\ c = c0
    /\ w = c0
    /\ out = b.items
    /\ adv = 0
    /\ acc = NoValue
    /\ pc = "loop"

\* c = c | hb_map (f)
PipeMap ==
  \E f \in PipeProjs :
    /\ pc = "loop"
    /\ adv < MaxStages
    /\ c' = pipe(c, hb_map_iter_factory_t(f))
    /\ w' = hb_map(w, f)
    /\ out' = Mapped(out, f)
    /\ adv' = adv + 1
    /\ UNCHANGED << arg, c0, acc, pc >>

\* c = c | hb_filter (p, f)
PipeFilter ==
  \E a \in PipeFilters :
    /\ pc = "loop"
    /\ adv < MaxStages
    /\ c' = pipe(c, hb_filter_iter_factory_t(a.p, a.f))
    /\ w' = hb_filter(w, a.p, a.f)
    /\ out' = Matching(out, a.p, a.f)
    /\ adv' = adv + 1
    /\ UNCHANGED << arg, c0, acc, pc >>

\* acc = c | hb_reduce (r, init_value)
PipeReduce ==
  \E r \in { "sub", "horner" }, v \in InitValues :
    /\ pc = "loop"
    /\ acc' = pipe(c, hb_reduce_t(r, v))
    /\ arg' = [arg EXCEPT !.r = [r |-> r, init_value |-> v]]
    /\ pc' = "reduced"
    /\ UNCHANGED << c0, c, out, w, adv >>

\* c | hb_sink (acc), into an empty buffer
PipeSink ==
  /\ pc = "loop"
  /\ acc' = pipe(c, hb_sink_t(<< >>))
  /\ pc' = "sunk"
  /\ UNCHANGED << arg, c0, c, out, w, adv >>

NextPipe == PipeMap \/ PipeFilter \/ PipeReduce \/ PipeSink

SpecPipe == InitPipe /\ [][NextPipe]_vars

\* C16: s | A1 | ... | Ak | T is T (Ak (... A1 (s) ...)): the piped iterator
\* is the nested application and yields the values the adaptors select and
\* compute from s, in order; a piped hb_reduce returns the left fold of
\* exactly those values (for s | map (f) | filter (p) | reduce (op, init),
\* of the f (x) for which p (f (x)) holds) and a piped hb_sink appends them.
PipeIsApplication ==
  /\ c = w
  /\ Yields(c) = out
  /\ pc = "reduced" =>
       /\ acc = FoldLeft(arg.r.r, arg.r.init_value, out)
       /\ acc = hb_reduce(w, arg.r.r, arg.r.init_value)
  /\ pc = "sunk" => acc = out /\ acc = hb_sink(w, << >>)

\* s | hb_map (dbl) | hb_filter (big) | hb_reduce (sub, 1) over three items
\* of which the filter drops one and keeps two.
PipeIsApplicationWitness ==
  /\ pc = "reduced"
  /\ arg.r.r = "sub"
  /\ Len(arg.s) = 3
  /\ c.kind = "filter"
  /\ c.p = "big"
  /\ c.f = Identity
  /\ c.it.kind = "map"
  /\ c.it.f = << "dbl" >>
  /\ Len(out) = 2
  /\ out = Matching(Mapped(arg.s, << "dbl" >>), "big", Identity)

(* ===================== hb_zip: range-based for ========================= *)

\* iter_t begin () const { return *thiz(); }
begin(it) == it

\* c runs the while-style loop into out; w runs
\*   for (auto it = z.begin (); it != z.end (); ++it) vis << *it;
\* acc holds z.end (), the items that loop has visited, and where it is:
\* "loop", "done" once it != end was false, or "overrun" once its body was
\* entered with an input of the zip exhausted.
InitRange ==
  \E a \in Arrays, b \in ShortArrays, ka \in BaseKinds :
    LET kb == CHOOSE k \in BaseKinds : k # ka
        z == hb_zip(Base(ka, a), Base(kb, b))
    IN  /\ arg = [a |-> a, b |-> b]
        /\ c0 = z
        /\ c = z
        /\ w = begin(z)
        /\ out = << >>
        /\ adv = 0
        /\ acc = [end |-> iter_end(z, NoValue), vis |-> << >>, state |-> "loop"]
        /\ pc = "loop"

\* One iteration of the range-based loop: the test it != end, then *it and ++it.
RangeStep ==
  /\ acc.state = "loop"
  /\ IF ~neq(w, acc.end)
     THEN /\ acc' = [acc EXCEPT !.state = "done"]
          /\ w' = w
     ELSE IF more(w.a) /\ more(w.b)
     THEN /\ acc' = [acc EXCEPT !.vis = Append(@, item(w))]
          /\ w' = next(w)
     ELSE /\ acc' = [acc EXCEPT !.state = "overrun"]
          /\ w' = w
  /\ UNCHANGED << arg, c0, c, out, adv, pc >>

NextRange == Traverse \/ RangeStep

SpecRange == InitRange /\ [][NextRange]_vars

\* C17: the range-based loop over hb_zip (a, b) never enters its body with
\* an input exhausted, and once both loops have ended it has visited the
\* items the while-style loop visited, min (len (a), len (b)) pairs.
RangeLoopMatchesWhileLoop ==
  /\ acc.state # "overrun"
  /\ (acc.state = "done" /\ pc = "done") =>
       /\ acc.vis = out
       /\ Len(acc.vis) = Min(Len(arg.a), Len(arg.b))

\* The same statement for inputs of one length.
RangeLoopMatchesWhileLoopEqualLengths ==
  Len(arg.a) = Len(arg.b) => RangeLoopMatchesWhileLoop

(* ==================== advancing and retreating ========================= *)

\* The bidirectional iterators a cursor is taken from: each adaptor over
\* either kind of input, and hb_iota over unsigned values, wrapping ones
\* included.
Bidirectionals ==
  { hb_map(Base(k, s), WrapProj) : s \in Arrays, k \in BaseKinds }
    \cup { hb_filter(Base(k, s), p, Identity) : s \in Arrays, k \in BaseKinds, p \in Preds }
    \cup { hb_zip(Base(k, x.a), Base(CHOOSE o \in BaseKinds : o # k, x.b)) :
             x \in [a : Arrays, b : ShortArrays], k \in BaseKinds }
    \cup { hb_enumerate(Base(k, s)) : s \in Arrays, k \in BaseKinds }
    \cup { hb_iota(x.start, x.end, x.step) :
             x \in { y \in [start : 0 .. MaxItem, end : Unsigned, step : 1 .. MaxCount] :
                       y.start <= y.end } }

\* c is the cursor; w is where the last round trip from c ended and acc the
\* distance it went.
InitInverse ==
  \E it \in Bidirectionals :
    /\ arg = [kind |-> it.kind]
    /\ c0 = it
    /\ c = it
    /\ w = it
    /\ out = << >>
    /\ adv = 0
    /\ acc = 0
    /\ pc = "loop"

\* ++c: the cursor moves to its next position
InverseNext ==
  /\ more(c)
  /\ c' = next(c)
  /\ adv' = adv + 1
  /\ pc' = "loop"
  /\ UNCHANGED << arg, c0, out, w, acc >>

\* w = c; ++w; --w;
RoundTripOne ==
  /\ more(c)
  /\ w' = prev(next(iter(c)))
  /\ acc' = 1
  /\ pc' = "tripped"
  /\ UNCHANGED << arg, c0, c, out, adv >>

\* w = c; w += n; w -= n;  for n up to the remaining length
RoundTripBy ==
  \E n \in 1 .. MaxCount :
    /\ more(c)
    /\ n <= len(c)
    /\ w' = rewind(forward(iter(c), n), n)
    /\ acc' = n
    /\ pc' = "tripped"
    /\ UNCHANGED << arg, c0, c, out, adv >>

NextInverse == InverseNext \/ RoundTripOne \/ RoundTripBy

SpecInverse == InitInverse /\ [][NextInverse]_vars

\* C18: on map, filter, zip, enumerate and iota, advancing a non-exhausted
\* cursor by n, for n up to the remaining length, and retreating by n
\* returns a cursor at the same position, with the same current item and the
\* same remaining items; ++ followed by -- is the case n = 1.
AdvanceRetreatInverse ==
  pc = "tripped" =>
    /\ w = c
    /\ more(w)
    /\ item(w) = item(c)
    /\ Yields(w) = Yields(c)

\* The same statement for the kinds other than filter.
AdvanceRetreatInverseExceptFilter ==
  arg.kind # "filter" => AdvanceRetreatInverse

====
